---- MODULE Spec2Model ----
(***************************************************************************)
(* Model of tlapack::svd_qr (src/unnamed/part_000): the implicit-shift QR  *)
(* iteration on a real bidiagonal matrix (d, e) with optional accumulation *)
(* of the rotations into U (columns) and Vt (rows).                        *)
(*                                                                         *)
(* Numbers.  d and e hold integers that stand for the real values of the   *)
(* program.  Comparisons, negation and the tests against zero are the      *)
(* program's own.  A product with a cosine or sine, a square root and a    *)
(* quotient are not integers in general: each is the set of integers that  *)
(* the exact result may round to (sign and zero are kept exactly, the      *)
(* magnitude ranges over the bounds the exact result obeys), clipped to    *)
(* the magnitude bound Lim(n).  A cosine or sine is 0, +-One (exactly      *)
(* +-1) or +-Frac (strictly between 0 and 1 in magnitude).  Values are     *)
(* finite: NaN and infinities are not modelled.                            *)
(*                                                                         *)
(* Matrices.  A column of U (row of Vt) is a tag: +-(j+1) is the original  *)
(* column j of the caller's matrix (negated when the tag is negative),     *)
(* Mixed is a combination produced by a rotation other than the identity.  *)
(* Any content of the caller's U and Vt is covered by the tags.            *)
(*                                                                         *)
(* blas::her2 (src/include/blas/her2.hpp) is modelled further down, with   *)
(* its own specification Her2Spec; the two routines do not interact.       *)
(* col and row of a tiled starpu::Matrix                                   *)
(* (src/include/tlapack/plugins/starpu.hpp) follow it, with StarpuSpec.    *)
(***************************************************************************)
EXTENDS Integers, Sequences, FiniteSets, TLC

\* ---------------------------------------------------------------- bounds
\* Largest order of the bidiagonal matrix for arbitrary inputs.
MaxN == 3
\* Magnitude bound of the values of problems of order <= 2.
MaxVal == 5
\* Magnitude bound of the values of problems of order 3 (the ones that sweep).
MaxValSweep == 1
\* Magnitude bound of the inputs of order <= 2 where the runs of all the
\* settings of want_u and want_vt are compared step by step.
MaxValNarrow == 2
\* Largest order of the matrix A of her2.
Her2MaxN == 2
\* Largest magnitude of the strides incx, incy of her2.
Her2MaxInc == 2
\* 1/eps of the modelled arithmetic (eps = ulp<real_t>()).
EpsInv == 40
\* Largest number of tiles of a starpu::Matrix in each direction.
StarpuMaxGrid == 3
\* Largest number of rows and of columns of a tile.
StarpuMaxTile == 2

\* ------------------------------------------------------ program constants
\* tol = 10 * eps
TolFactor == 10
\* itmax = 30 * n
ItFactor == 30

\* Encoding of a cosine or sine: 0, +-Frac (0 < |c| < 1), +-One (|c| = 1).
Frac == 1
One == 2
\* Tag of a column (row) that a non-identity rotation has written.
Mixed == 0

VARIABLES
    uplo,      \* "Upper" | "Lower"
    want_u,    \* BOOLEAN
    want_vt,   \* BOOLEAN
    n,         \* size(d)
    d,         \* [0..n-1 -> Int]
    e,         \* [0..n-2 -> Int]
    U,         \* [0..n-1 -> tag]  columns of U
    Vt,        \* [0..n-1 -> tag]  rows of Vt
    pc,        \* "entry" | "norm" | "main" | "sign" | "sort" | "done"
    i,         \* the index of the running for loop (normalizer, sign, sort)
    iter,      \* the main loop's counter
    istart,    \* active block [istart, istop)
    istop,
    ret,       \* the value returned; NoRet before the return
    path,      \* how the routine left: "none" | "quick" | "fail" | "post"
    touchU,    \* col(U, .) has been called
    touchVt,   \* row(Vt, .) has been called
    oob,       \* an element outside d or e has been read
    shift_at,  \* the indices <<id, ie, ih>> of the d[id], e[ie], d[ih] that the
               \* last shift computation read; << >> before the first one
    d_in,      \* d and e on entry (kept for orders <= 2 and for diagonal
    e_in,      \* inputs; empty otherwise)
    her2,      \* the parameters and locals of a call of blas::her2
    starpu     \* a tiled starpu::Matrix and the col / row view taken of it

svd_vars == <<uplo, want_u, want_vt, n, d, e, U, Vt, pc, i, iter, istart,
              istop, ret, path, touchU, touchVt, oob, shift_at, d_in, e_in>>

vars == <<svd_vars, her2, starpu>>

NoRet == -1

\* --------------------------------------------------------------- helpers
Sgn(x) == IF x > 0 THEN 1 ELSE IF x < 0 THEN -1 ELSE 0

Abs(x) == IF x < 0 THEN -x ELSE x

Min(a, b) == IF a <= b THEN a ELSE b

Max(a, b) == IF a >= b THEN a ELSE b

Lim(m) == IF m <= 2 THEN MaxVal ELSE MaxValSweep

Clip(L, x) == IF x > L THEN L ELSE IF x < -L THEN -L ELSE x

\* floor(sqrt(q)) for q >= 0
ISqrt(q) == CHOOSE m \in 0..q : m * m <= q /\ (m + 1) * (m + 1) > q

\* The magnitudes sqrt(q) may round to.
Hyp(L, q) ==
    LET f == ISqrt(q)
    IN  {Clip(L, f)} \cup (IF f * f = q THEN {} ELSE {Clip(L, f + 1)})

\* c * x for a cosine or sine c and a value x.
Times(c, x) ==
    IF c = 0 \/ x = 0 THEN {0}
    ELSE IF Abs(c) = One THEN {Sgn(c) * x}
    ELSE {Sgn(c) * Sgn(x) * m : m \in 1..Abs(x)}

\* x + y for two values: exact when a term is zero; terms of opposite sign
\* may cancel, and the sum of the two rounded terms is then one off either way.
Plus(L, x, y) ==
    IF x = 0 THEN {y}
    ELSE IF y = 0 THEN {x}
    ELSE IF Sgn(x) = Sgn(y) THEN {Clip(L, x + y)}
    ELSE {Clip(L, x + y + k) : k \in -1..1}

\* x - y
Minus(L, x, y) == Plus(L, x, -y)

AllZero(v) == \A j \in DOMAIN v : v[j] = 0

\* ------------------------------------------------------- collaborators
\* lartg(f, g, c, s, r): the plane rotation with c*f + s*g = r and
\* -s*f + c*g = 0.
lartg(L, f, g) ==
    IF g = 0 THEN {[c |-> One, s |-> 0, r |-> f]}
    ELSE IF f = 0 THEN {[c |-> 0, s |-> One * Sgn(g), r |-> Abs(g)]}
    ELSE {[c |-> Frac, s |-> Frac * Sgn(f) * Sgn(g), r |-> Sgn(f) * m] :
            m \in Hyp(L, f * f + g * g)}

\* rot(x, y, c, s) on columns (rows) a and b of M.
rot(M, a, b, c, s) ==
    IF c = One /\ s = 0 THEN M
    ELSE [M EXCEPT ![a] = Mixed, ![b] = Mixed]

\* scal(-one, x) on row a of M.
scalNeg(M, a) == [M EXCEPT ![a] = -M[a]]

\* swap(x, y) on columns (rows) a and b of M.
swap(M, a, b) == [M EXCEPT ![a] = M[b], ![b] = M[a]]

\* singularvalues22(f, g, h, ssmin, ssmax): the smaller singular value of
\* [[f, g], [0, h]] (the caller discards ssmax).
singularvalues22(f, g, h) ==
    LET fhmn == Min(Abs(f), Abs(h))
    IN  IF fhmn = 0 THEN {0}
        ELSE IF g = 0 THEN {fhmn}
        ELSE 1..fhmn

\* svd22(f, g, h, ssmin, ssmax, csl, snl, csr, snr): the singular values of
\* [[f, g], [0, h]] and the left and right rotations that diagonalise it:
\* |ssmax| >= |ssmin|, |ssmax| lies between the largest entry and the
\* Frobenius norm, and ssmax * ssmin = f * h.
svd22(L, f, g, h) ==
    LET q    == f * f + g * g + h * h
        lo   == Max(Abs(f), Max(Abs(g), Abs(h)))
        fh   == Abs(f * h)
        mnfh == Min(Abs(f), Abs(h))
        big  == IF g = 0 THEN {lo}
                ELSE IF f = 0 \/ h = 0 THEN Hyp(L, q)
                ELSE Clip(L, lo)..Clip(L, ISqrt(q) + 1)
        sml(mx) == IF fh = 0 THEN {0}
                   ELSE IF g = 0 THEN {mnfh}
                   ELSE {Max(1, Min(mnfh, fh \div mx)),
                         Max(1, Min(mnfh, (fh + mx - 1) \div mx))}
        left == IF g = 0 /\ Abs(f) >= Abs(h) THEN {<<One, 0>>}
                ELSE IF g = 0 THEN {<<0, One>>}
                ELSE IF h = 0 THEN {<<One, 0>>}
                ELSE {<<Frac, Frac>>, <<Frac, -Frac>>}
        right == IF g = 0 /\ Abs(f) >= Abs(h) THEN {<<One, 0>>}
                 ELSE IF g = 0 THEN {<<0, One>>}
                 ELSE {<<Frac, Frac>>, <<Frac, -Frac>>}
    IN  UNION {{[ssmax |-> sx * mx,
                 ssmin |-> sx * Sgn(f) * Sgn(h) * mn,
                 csl |-> l[1], snl |-> l[2], csr |-> r[1], snr |-> r[2]] :
                   sx \in {1, -1}, mn \in sml(mx), l \in left, r \in right} :
               mx \in big}

\* iamax(x): the index of the first element of largest magnitude of the
\* slice d[lo..hi].
iamax(v, lo, hi) ==
    CHOOSE k \in 0..(hi - lo) :
        /\ \A j \in 0..(hi - lo) : Abs(v[lo + k]) >= Abs(v[lo + j])
        /\ \A j \in 0..(k - 1) : Abs(v[lo + j]) < Abs(v[lo + k])

\* ------------------------------------------------------------ svd_qr
itmax == ItFactor * n

\* Variant: the test with < instead of <=.
NegligibleStrict(x, y) == EpsInv * Abs(x) < TolFactor * Abs(y)

\* abs(x) <= tol * abs(y), tol = 10 * eps
Negligible(x, y) == EpsInv * Abs(x) <= TolFactor * Abs(y)

\* d[k] as the program reads it: an index outside [0, n) reads whatever
\* lies beyond the vector.
ReadD(k) == IF k \in 0..(n - 1) THEN {d[k]} ELSE (-Lim(n))..Lim(n)

\* e[k] as the program reads it: an index outside [0, n-1) reads whatever
\* lies beyond the vector.
ReadE(ee, k) == IF k \in 0..(n - 2) THEN {ee[k]} ELSE (-Lim(n))..Lim(n)

InBounds(k, len) == k \in 0..(len - 1)

\* No call of blas::her2 is in progress.
NoCall == [pc |-> "none"]

\* No starpu::Matrix is in use.
NoMatrix == [pc |-> "none"]

\* The order of the inputs that are split on entry: upper bidiagonal, no
\* vectors, and either e[0] == 0 (the active block of the first sweep is
\* [1, n)) or e[n-2] == 0 (d[n-1] deflates first and the sweeps run on
\* [0, n-1)).
SplitN == MaxN + 1

SplitInput ==
    /\ n = SplitN
    /\ uplo = "Upper" /\ ~want_u /\ ~want_vt
    /\ e[0] = 0 \/ e[n - 2] = 0

Init ==
    /\ uplo \in {"Upper", "Lower"}
    /\ want_u \in BOOLEAN
    /\ want_vt \in BOOLEAN
    /\ n \in 0..SplitN
    /\ d \in [0..(n - 1) -> (-Lim(n))..Lim(n)]
    /\ e \in [0..(n - 2) -> (-Lim(n))..Lim(n)]
    /\ n <= MaxN \/ SplitInput
    /\ U = [j \in 0..(n - 1) |-> j + 1]
    /\ Vt = [j \in 0..(n - 1) |-> j + 1]
    /\ pc = "entry"
    /\ i = 0
    /\ iter = 0
    /\ istart = 0
    /\ istop = n
    /\ ret = NoRet
    /\ path = "none"
    /\ touchU = FALSE
    /\ touchVt = FALSE
    /\ oob = FALSE
    /\ shift_at = << >>
    /\ her2 = NoCall
    /\ starpu = NoMatrix
    /\ d_in = IF n <= 2 \/ AllZero(e) THEN d ELSE << >>
    /\ e_in = IF n <= 2 \/ AllZero(e) THEN e ELSE << >>

args == <<uplo, want_u, want_vt, n, d_in, e_in>>

\* Quick return: if (n == 0) return 0;
QuickReturn ==
    /\ pc = "entry"
    /\ n = 0
    /\ pc' = "done"
    /\ ret' = 0
    /\ path' = "quick"
    /\ UNCHANGED <<args, d, e, U, Vt, i, iter, istart, istop, touchU,
                   touchVt, oob, shift_at, her2, starpu>>

\* Variant: the routine goes on without the quick return's test.
EnterUnguarded ==
    /\ pc = "entry"
    /\ pc' = IF uplo = "Lower" /\ 0 < n - 1 THEN "norm" ELSE "main"
    /\ i' = 0
    /\ istart' = 0
    /\ istop' = n
    /\ iter' = 0
    /\ UNCHANGED <<args, d, e, U, Vt, ret, path, touchU, touchVt, oob,
                   shift_at, her2, starpu>>

\* n > 0: to the normalizer if uplo == Lower, else to the main loop with
\* istart = 0, istop = n, iter = 0.
Enter ==
    /\ pc = "entry"
    /\ n # 0
    /\ pc' = IF uplo = "Lower" /\ 0 < n - 1 THEN "norm" ELSE "main"
    /\ i' = 0
    /\ istart' = 0
    /\ istop' = n
    /\ iter' = 0
    /\ UNCHANGED <<args, d, e, U, Vt, ret, path, touchU, touchVt, oob,
                   shift_at, her2, starpu>>

\* Variant: the rotation is applied to the rows of Vt as well.
NormStepAlsoVt ==
    /\ pc = "norm"
    /\ i < n - 1
    /\ \E g \in lartg(Lim(n), d[i], e[i]) :
         \E x \in Times(g.s, d[i + 1]), y \in Times(g.c, d[i + 1]) :
            /\ d' = [d EXCEPT ![i] = g.r, ![i + 1] = y]
            /\ e' = [e EXCEPT ![i] = x]
            /\ U' = IF want_u THEN rot(U, i, i + 1, g.c, g.s) ELSE U
            /\ Vt' = IF want_vt THEN rot(Vt, i, i + 1, g.c, g.s) ELSE Vt
    /\ touchU' = (touchU \/ want_u)
    /\ touchVt' = (touchVt \/ want_vt)
    /\ i' = i + 1
    /\ pc' = IF i + 1 < n - 1 THEN "norm" ELSE "main"
    /\ UNCHANGED <<args, iter, istart, istop, ret, path, oob, shift_at, her2, starpu>>

\* One iteration of the normalizer's loop.
NormStep ==
    /\ pc = "norm"
    /\ i < n - 1
    /\ \E g \in lartg(Lim(n), d[i], e[i]) :
         \E x \in Times(g.s, d[i + 1]), y \in Times(g.c, d[i + 1]) :
            /\ d' = [d EXCEPT ![i] = g.r, ![i + 1] = y]
            /\ e' = [e EXCEPT ![i] = x]
            /\ U' = IF want_u THEN rot(U, i, i + 1, g.c, g.s) ELSE U
    /\ touchU' = (touchU \/ want_u)
    /\ i' = i + 1
    /\ pc' = IF i + 1 < n - 1 THEN "norm" ELSE "main"
    /\ UNCHANGED <<args, Vt, iter, istart, istop, ret, path, touchVt, oob,
                   shift_at, her2, starpu>>

\* Variant: the scanner moves istart and leaves e[i-1] as it was.
ScanKeepE ==
    LET hit == {k \in (istart + 1)..(istop - 1) : Negligible(e[k - 1], d[k])}
    IN  IF hit = {} THEN [e |-> e, istart |-> istart]
        ELSE [e |-> e, istart |-> CHOOSE k \in hit : \A j \in hit : j <= k]

\* The deflation scanner: for (i = istop - 1; i > istart; --i)
\*   if (abs(e[i-1]) <= tol * abs(d[i])) { e[i-1] = zero; istart = i; break; }
RECURSIVE ScanFrom(_)
ScanFrom(k) ==
    IF k > istart
    THEN IF Negligible(e[k - 1], d[k])
         THEN [e |-> [e EXCEPT ![k - 1] = 0], istart |-> k]
         ELSE ScanFrom(k - 1)
    ELSE [e |-> e, istart |-> istart]

\* Variant: the scanner stops at the smallest index that qualifies.
ScanLowest ==
    LET hit == {k \in (istart + 1)..(istop - 1) : Negligible(e[k - 1], d[k])}
    IN  IF hit = {} THEN [e |-> e, istart |-> istart]
        ELSE LET k == CHOOSE k \in hit : \A j \in hit : k <= j
             IN  [e |-> [e EXCEPT ![k - 1] = 0], istart |-> k]

\* The scanner run from i = istop - 1.
Scan == ScanFrom(istop - 1)

\* if (iter == itmax) return istop;
Fail ==
    /\ pc = "main"
    /\ iter = itmax
    /\ pc' = "done"
    /\ ret' = istop
    /\ path' = "fail"
    /\ UNCHANGED <<args, d, e, U, Vt, i, iter, istart, istop, touchU,
                   touchVt, oob, shift_at, her2, starpu>>

\* if (istop <= 1) break;
Converged ==
    /\ pc = "main"
    /\ iter # itmax
    /\ istop <= 1
    /\ pc' = "sign"
    /\ i' = 0
    /\ UNCHANGED <<args, d, e, U, Vt, iter, istart, istop, ret, path, touchU,
                   touchVt, oob, shift_at, her2, starpu>>

\* Variant: an iteration that is not counted.
NextIterStuck == iter

\* ++iter of: for (idx_t iter = 0; iter <= itmax; ++iter)
NextIter == iter + 1

\* The body runs: neither the budget check nor the convergence check left.
Body == pc = "main" /\ iter # itmax /\ istop > 1

\* Variant: istart is left where the scanner put it.
Deflate1KeepStart ==
    /\ Body
    /\ LET sc == Scan
       IN  /\ sc.istart = istop - 1
           /\ e' = sc.e
           /\ istop' = istop - 1
           /\ istart' = sc.istart
    /\ iter' = NextIter
    /\ UNCHANGED <<args, d, U, Vt, pc, i, ret, path, touchU, touchVt, oob,
                   shift_at, her2, starpu>>

\* Variant: istop is reduced wherever the scanner stopped.
Deflate1Unguarded ==
    /\ Body
    /\ LET sc == Scan
       IN  /\ e' = sc.e
           /\ istop' = istop - 1
           /\ istart' = 0
    /\ iter' = NextIter
    /\ UNCHANGED <<args, d, U, Vt, pc, i, ret, path, touchU, touchVt, oob,
                   shift_at, her2, starpu>>

\* A singular value has split off: istop = istop - 1; istart = 0; continue;
Deflate1 ==
    /\ Body
    /\ LET sc == Scan
       IN  /\ sc.istart = istop - 1
           /\ e' = sc.e
           /\ istop' = istop - 1
           /\ istart' = 0
    /\ iter' = NextIter
    /\ UNCHANGED <<args, d, U, Vt, pc, i, ret, path, touchU, touchVt, oob,
                   shift_at, her2, starpu>>

\* Variant: the smaller singular value goes to d[istart].
SolvedSmallFirst(ee, is, v) ==
    [d |-> [d EXCEPT ![is] = v.ssmin, ![is + 1] = v.ssmax],
     e |-> [ee EXCEPT ![is] = 0]]

\* Variant: e[istart] is left as it was.
SolvedKeepE(ee, is, v) ==
    [d |-> [d EXCEPT ![is] = v.ssmax, ![is + 1] = v.ssmin], e |-> ee]

\* d[istart] = sigmx; d[istart + 1] = sigmn; e[istart] = zero;
Solved(ee, is, v) ==
    [d |-> [d EXCEPT ![is] = v.ssmax, ![is + 1] = v.ssmin],
     e |-> [ee EXCEPT ![is] = 0]]

\* A 2x2 block has split off: svd22, then istop = istop - 2; istart = 0.
Deflate2 ==
    /\ Body
    /\ LET sc == Scan
           is == sc.istart
       IN  /\ is # istop - 1
           /\ is + 1 = istop - 1
           /\ \E v \in svd22(Lim(n), d[is], sc.e[is], d[is + 1]) :
                /\ d' = Solved(sc.e, is, v).d
                /\ e' = Solved(sc.e, is, v).e
                /\ U' = IF want_u THEN rot(U, is, is + 1, v.csl, v.snl) ELSE U
                /\ Vt' = IF want_vt THEN rot(Vt, is, is + 1, v.csr, v.snr)
                         ELSE Vt
    /\ touchU' = (touchU \/ want_u)
    /\ touchVt' = (touchVt \/ want_vt)
    /\ istop' = istop - 2
    /\ istart' = 0
    /\ iter' = NextIter
    /\ UNCHANGED <<args, pc, i, ret, path, oob, shift_at, her2, starpu>>

\* The active block left by the scanner has at least 3 entries.
SweepBlock(sc) == sc.istart # istop - 1 /\ sc.istart + 1 # istop - 1

\* singularvalues22(d[istop - 1], e[istop - 1], d[istop], shift, temp);
\* if (sstart > zero and pow(shift / sstart, 2) < eps) shift = zero;
Shifts(sc) ==
    LET sstart == Abs(d[sc.istart])
        raw == UNION {singularvalues22(f, g, h) :
                        f \in ReadD(istop - 1),
                        g \in ReadE(sc.e, istop - 1),
                        h \in ReadD(istop)}
    IN  {IF sstart > 0 /\ EpsInv * s * s < sstart * sstart THEN 0 ELSE s :
            s \in raw}

\* The zero-shift sweep's loop body at i = k after its first lartg gave g1:
\*   if (i > istart) e[i - 1] = oldsn * r;
\*   lartg(oldcs * r, d[i + 1] * sn, oldcs, oldsn, d[i]);
\*   rot(u1, u2, oldcs, oldsn); rot(vt1, vt2, cs, sn);
ZeroStepRest(L, st, k, lo, g1) ==
    {[d |-> [st.d EXCEPT ![k] = g2.r],
      e |-> IF k > lo THEN [st.e EXCEPT ![k - 1] = b] ELSE st.e,
      U |-> IF want_u THEN rot(st.U, k, k + 1, g2.c, g2.s) ELSE st.U,
      Vt |-> IF want_vt THEN rot(st.Vt, k, k + 1, g1.c, g1.s) ELSE st.Vt,
      cs |-> g1.c, sn |-> g1.s, oldcs |-> g2.c, oldsn |-> g2.s] :
        b \in Times(st.oldsn, g1.r),
        g2 \in UNION {lartg(L, p, q) : p \in Times(st.oldcs, g1.r),
                                       q \in Times(g1.s, st.d[k + 1])}}

\* One iteration i = k of the zero-shift sweep's loop:
\*   lartg(d[i] * cs, e[i], cs, sn, r); ...
ZeroStep(L, st, k, lo) ==
    UNION {ZeroStepRest(L, st, k, lo, g1) :
             g1 \in UNION {lartg(L, a, st.e[k]) : a \in Times(st.cs, st.d[k])}}

\* Variant: the loop stops one index early (i < istop - 2).
RECURSIVE ZeroLoopShort(_, _, _, _, _)
ZeroLoopShort(L, S, k, lo, hi) ==
    IF k < hi - 2
    THEN ZeroLoopShort(L, UNION {ZeroStep(L, st, k, lo) : st \in S},
                       k + 1, lo, hi)
    ELSE S

\* for (i = istart; i < istop - 1; ++i) from i = k on the states S.
RECURSIVE ZeroLoop(_, _, _, _, _)
ZeroLoop(L, S, k, lo, hi) ==
    IF k < hi - 1
    THEN ZeroLoop(L, UNION {ZeroStep(L, st, k, lo) : st \in S}, k + 1, lo, hi)
    ELSE S

\* Variant: the last assignment goes to e[istop - 1] where it exists.
ZeroEndPast(st, hi) ==
    UNION {{[st EXCEPT !.d = [st.d EXCEPT ![hi - 1] = x],
                       !.e = IF hi - 1 \in DOMAIN st.e
                             THEN [st.e EXCEPT ![hi - 1] = y]
                             ELSE [st.e EXCEPT ![hi - 2] = y]] :
              x \in Times(st.oldcs, h), y \in Times(st.oldsn, h)} :
           h \in Times(st.cs, st.d[hi - 1])}

\* h = d[istop - 1] * cs; d[istop - 1] = h * oldcs; e[istop - 2] = h * oldsn;
ZeroEnd(st, hi) ==
    UNION {{[st EXCEPT !.d = [st.d EXCEPT ![hi - 1] = x],
                       !.e = [st.e EXCEPT ![hi - 2] = y]] :
              x \in Times(st.oldcs, h), y \in Times(st.oldsn, h)} :
           h \in Times(st.cs, st.d[hi - 1])}

\* The zero-shift sweep of the block [lo, hi) on (d, ee, U, Vt).
ZeroSweep(L, ee, lo, hi) ==
    UNION {ZeroEnd(st, hi) :
             st \in ZeroLoop(L, {[d |-> d, e |-> ee, U |-> U, Vt |-> Vt,
                                  cs |-> One, sn |-> 0,
                                  oldcs |-> One, oldsn |-> 0]}, lo, lo, hi)}

\* f = (abs(d[istart]) - shift) * (copysign(one, d[istart]) + shift / d[istart])
\* The quotient by d[istart] == 0 is not finite: any value stands for it.
ShiftF(L, x, shift) ==
    IF x = 0 THEN (-L)..L
    ELSE LET q == Abs(x * x - shift * shift)
             sg == Sgn(x) * Sgn(Abs(x) - shift)
         IN  IF q = 0 THEN {0}
             ELSE {sg * Clip(L, Max(1, q \div Abs(x))),
                   sg * Clip(L, (q + Abs(x) - 1) \div Abs(x))}

\* Variant: e[i - 1] = r also at i == istart (wherever e[i - 1] exists).
ShiftStepRestUnguarded(L, st, k, lo, hi, gr, gl, ek, dk1) ==
    {[d |-> [st.d EXCEPT ![k] = gl.r, ![k + 1] = y],
      e |-> LET e1 == IF k > 0 THEN [st.e EXCEPT ![k - 1] = gr.r] ELSE st.e
                e2 == [e1 EXCEPT ![k] = ek]
            IN  IF k + 1 < hi - 1 THEN [e2 EXCEPT ![k + 1] = en] ELSE e2,
      U |-> IF want_u THEN rot(st.U, k, k + 1, gl.c, gl.s) ELSE st.U,
      Vt |-> IF want_vt THEN rot(st.Vt, k, k + 1, gr.c, gr.s) ELSE st.Vt,
      f |-> f2,
      g |-> IF k + 1 < hi - 1 THEN gn ELSE st.g] :
        f2 \in UNION {Plus(L, a, b) : a \in Times(gl.c, ek),
                                      b \in Times(gl.s, dk1)},
        y \in UNION {Minus(L, a, b) : a \in Times(gl.c, dk1),
                                      b \in Times(gl.s, ek)},
        gn \in IF k + 1 < hi - 1 THEN Times(gl.s, st.e[k + 1]) ELSE {0},
        en \in IF k + 1 < hi - 1 THEN Times(gl.c, st.e[k + 1]) ELSE {0}}

\* The nonzero-shift sweep's loop body at i = k after the two lartg calls gave
\* gr (right, from f and g) and gl (left), with the updated entries given.
ShiftStepRest(L, st, k, lo, hi, gr, gl, ek, dk1) ==
    {[d |-> [st.d EXCEPT ![k] = gl.r, ![k + 1] = y],
      e |-> LET e1 == IF k > lo THEN [st.e EXCEPT ![k - 1] = gr.r] ELSE st.e
                e2 == [e1 EXCEPT ![k] = ek]
            IN  IF k + 1 < hi - 1 THEN [e2 EXCEPT ![k + 1] = en] ELSE e2,
      U |-> IF want_u THEN rot(st.U, k, k + 1, gl.c, gl.s) ELSE st.U,
      Vt |-> IF want_vt THEN rot(st.Vt, k, k + 1, gr.c, gr.s) ELSE st.Vt,
      f |-> f2,
      g |-> IF k + 1 < hi - 1 THEN gn ELSE st.g] :
        f2 \in UNION {Plus(L, a, b) : a \in Times(gl.c, ek),
                                      b \in Times(gl.s, dk1)},
        y \in UNION {Minus(L, a, b) : a \in Times(gl.c, dk1),
                                      b \in Times(gl.s, ek)},
        gn \in IF k + 1 < hi - 1 THEN Times(gl.s, st.e[k + 1]) ELSE {0},
        en \in IF k + 1 < hi - 1 THEN Times(gl.c, st.e[k + 1]) ELSE {0}}

\* One iteration i = k of the nonzero-shift sweep's loop:
\*   lartg(f, g, csr, snr, r); if (i > istart) e[i - 1] = r;
\*   f = csr * d[i] + snr * e[i]; e[i] = csr * e[i] - snr * d[i];
\*   g = snr * d[i + 1]; d[i + 1] = csr * d[i + 1];
\*   lartg(f, g, csl, snl, r); d[i] = r; ...
ShiftStep(L, st, k, lo, hi) ==
    UNION {UNION {ShiftStepRest(L, st, k, lo, hi, gr, gl, ek, dk1) :
                    ek \in UNION {Minus(L, a, b) :
                                    a \in Times(gr.c, st.e[k]),
                                    b \in Times(gr.s, st.d[k])},
                    dk1 \in Times(gr.c, st.d[k + 1]),
                    gl \in UNION {lartg(L, f1, g1) :
                                    f1 \in UNION {Plus(L, a, b) :
                                             a \in Times(gr.c, st.d[k]),
                                             b \in Times(gr.s, st.e[k])},
                                    g1 \in Times(gr.s, st.d[k + 1])}} :
           gr \in lartg(L, st.f, st.g)}

\* for (i = istart; i < istop - 1; ++i) from i = k on the states S.
RECURSIVE ShiftLoop(_, _, _, _, _)
ShiftLoop(L, S, k, lo, hi) ==
    IF k < hi - 1
    THEN ShiftLoop(L, UNION {ShiftStep(L, st, k, lo, hi) : st \in S},
                   k + 1, lo, hi)
    ELSE S

\* The nonzero-shift sweep of the block [lo, hi) on (d, ee, U, Vt):
\* f and g initialised, the loop, then e[istop - 2] = f.
ShiftSweep(L, ee, lo, hi, shift) ==
    {[st EXCEPT !.e = [st.e EXCEPT ![hi - 2] = st.f]] :
       st \in ShiftLoop(L, {[d |-> d, e |-> ee, U |-> U, Vt |-> Vt,
                             f |-> f0, g |-> ee[lo]] :
                               f0 \in ShiftF(L, d[lo], shift)}, lo, lo, hi)}

\* if (shift == zero) { the simplified QR iteration }
ZeroShiftSweep ==
    /\ Body
    /\ LET sc == Scan
       IN  /\ SweepBlock(sc)
           /\ 0 \in Shifts(sc)
           /\ \E st \in ZeroSweep(Lim(n), sc.e, sc.istart, istop) :
                /\ d' = st.d
                /\ e' = st.e
                /\ U' = st.U
                /\ Vt' = st.Vt
           /\ istart' = sc.istart
    /\ oob' = (oob \/ ~InBounds(istop, n) \/ ~InBounds(istop - 1, n - 1))
    /\ shift_at' = <<istop - 1, istop - 1, istop>>
    /\ touchU' = (touchU \/ want_u)
    /\ touchVt' = (touchVt \/ want_vt)
    /\ iter' = NextIter
    /\ UNCHANGED <<args, pc, i, istop, ret, path, her2, starpu>>

\* else { use nonzero shift }
NonzeroShiftSweep ==
    /\ Body
    /\ LET sc == Scan
       IN  /\ SweepBlock(sc)
           /\ \E shift \in Shifts(sc) \ {0} :
                \E st \in ShiftSweep(Lim(n), sc.e, sc.istart, istop, shift) :
                    /\ d' = st.d
                    /\ e' = st.e
                    /\ U' = st.U
                    /\ Vt' = st.Vt
           /\ istart' = sc.istart
    /\ oob' = (oob \/ ~InBounds(istop, n) \/ ~InBounds(istop - 1, n - 1))
    /\ shift_at' = <<istop - 1, istop - 1, istop>>
    /\ touchU' = (touchU \/ want_u)
    /\ touchVt' = (touchVt \/ want_vt)
    /\ iter' = NextIter
    /\ UNCHANGED <<args, pc, i, istop, ret, path, her2, starpu>>

\* Variant: the sign of d[i] is changed and row i of Vt is left as it was.
SignStepKeepVt ==
    /\ pc = "sign"
    /\ i < n
    /\ d' = [d EXCEPT ![i] = Abs(d[i])]
    /\ i' = IF i + 1 < n THEN i + 1 ELSE 0
    /\ pc' = IF i + 1 < n THEN "sign" ELSE "sort"
    /\ UNCHANGED <<args, e, U, Vt, iter, istart, istop, ret, path, touchU,
                   touchVt, oob, shift_at, her2, starpu>>

\* Variant: d[i] is negated only when want_vt is set.
SignStepFlagged ==
    /\ pc = "sign"
    /\ i < n
    /\ IF d[i] < 0 /\ want_vt
       THEN /\ d' = [d EXCEPT ![i] = -d[i]]
            /\ Vt' = scalNeg(Vt, i)
            /\ touchVt' = TRUE
       ELSE UNCHANGED <<d, Vt, touchVt>>
    /\ i' = IF i + 1 < n THEN i + 1 ELSE 0
    /\ pc' = IF i + 1 < n THEN "sign" ELSE "sort"
    /\ UNCHANGED <<args, e, U, iter, istart, istop, ret, path, touchU, oob,
                   shift_at, her2, starpu>>

\* One iteration of: for (i = 0; i < n; ++i) if (d[i] < zero) { ... }
SignStep ==
    /\ pc = "sign"
    /\ i < n
    /\ IF d[i] < 0
       THEN /\ d' = [d EXCEPT ![i] = -d[i]]
            /\ Vt' = IF want_vt THEN scalNeg(Vt, i) ELSE Vt
            /\ touchVt' = (touchVt \/ want_vt)
       ELSE UNCHANGED <<d, Vt, touchVt>>
    /\ i' = IF i + 1 < n THEN i + 1 ELSE 0
    /\ pc' = IF i + 1 < n THEN "sign" ELSE "sort"
    /\ UNCHANGED <<args, e, U, iter, istart, istop, ret, path, touchU, oob,
                   shift_at, her2, starpu>>

\* Variant: the swap of the columns of U without its guard.
SortUAlways(imax) == swap(U, imax, i)

\* if (want_u) { tlapack::swap(col(U, imax), col(U, i)); }
SortU(imax) == IF want_u THEN swap(U, imax, i) ELSE U

\* Variant: d and the columns of U are swapped, the rows of Vt are not.
SortStepKeepVt ==
    /\ pc = "sort"
    /\ i < n - 1
    /\ LET imax == i + iamax(d, i, n - 1)
       IN  IF imax # i
           THEN /\ d' = [d EXCEPT ![imax] = d[i], ![i] = d[imax]]
                /\ U' = SortU(imax)
                /\ touchU' = (touchU \/ want_u)
           ELSE UNCHANGED <<d, U, touchU>>
    /\ i' = i + 1
    /\ UNCHANGED <<args, e, Vt, pc, iter, istart, istop, ret, path, touchVt,
                   oob, shift_at, her2, starpu>>

\* One iteration of: for (i = 0; i < n - 1; ++i) { imax = i + iamax(d2); ... }
SortStep ==
    /\ pc = "sort"
    /\ i < n - 1
    /\ LET imax == i + iamax(d, i, n - 1)
       IN  IF imax # i
           THEN /\ d' = [d EXCEPT ![imax] = d[i], ![i] = d[imax]]
                /\ U' = SortU(imax)
                /\ Vt' = IF want_vt THEN swap(Vt, imax, i) ELSE Vt
                /\ touchU' = (touchU \/ want_u)
                /\ touchVt' = (touchVt \/ want_vt)
           ELSE UNCHANGED <<d, U, Vt, touchU, touchVt>>
    /\ i' = i + 1
    /\ UNCHANGED <<args, e, pc, iter, istart, istop, ret, path, oob,
                   shift_at, her2, starpu>>

\* return 0;
Return ==
    /\ pc = "sort"
    /\ ~(i < n - 1)
    /\ pc' = "done"
    /\ ret' = 0
    /\ path' = "post"
    /\ UNCHANGED <<args, d, e, U, Vt, i, iter, istart, istop, touchU,
                   touchVt, oob, shift_at, her2, starpu>>

Next ==
    \/ QuickReturn
    \/ Enter
    \/ NormStep
    \/ Fail
    \/ Converged
    \/ Deflate1
    \/ Deflate2
    \/ ZeroShiftSweep
    \/ NonzeroShiftSweep
    \/ SignStep
    \/ SortStep
    \/ Return

Spec == Init /\ [][Next]_vars

\* The same routine on the inputs of order MaxN at most (the ones that come
\* with every setting of want_u and want_vt) whose entries, for the orders
\* <= 2, are of magnitude MaxValNarrow at most.
NarrowInit ==
    /\ Init
    /\ n <= MaxN
    /\ n <= 2 => /\ \A j \in DOMAIN d : Abs(d[j]) <= MaxValNarrow
                 /\ \A j \in DOMAIN e : Abs(e[j]) <= MaxValNarrow

NarrowSpec == NarrowInit /\ [][Next]_vars

TypeOK ==
    /\ n \in 0..SplitN
    /\ DOMAIN d = 0..(n - 1)
    /\ DOMAIN e = 0..(n - 2)
    /\ \A j \in DOMAIN d : d[j] \in (-Lim(n))..Lim(n)
    /\ \A j \in DOMAIN e : e[j] \in (-Lim(n))..Lim(n)
    /\ pc \in {"entry", "norm", "main", "sign", "sort", "done"}
    /\ iter \in 0..itmax

\* ------------------------------------------------------------ blas::her2
\* (src/include/blas/her2.hpp)  A = alpha x y^H + conj(alpha) y x^H + A on the
\* triangle of A that uplo selects.  her2 is the record of the call's
\* parameters and locals; A is the array as laid out in memory, a scalar is a
\* pair <<real part, imaginary part>> of integers.
\*
\* size_t arithmetic is modulo SizeMod (a power of two larger than every
\* index of the model, standing for 2^64).
SizeMod == 65536

\* The scalars of the inputs: 0, 1 and i.
Her2Vals == {<<0, 0>>, <<1, 0>>, <<0, 1>>}

\* The content of the elements of x and y between the strided ones.
Gap == <<7, 7>>

CAdd(a, b) == <<a[1] + b[1], a[2] + b[2]>>

CMul(a, b) == <<a[1] * b[1] - a[2] * b[2], a[1] * b[2] + a[2] * b[1]>>

conj(a) == <<a[1], -a[2]>>

real(a) == <<a[1], 0>>

zero == <<0, 0>>

\* #define A(i_, j_) A[ (i_) + (j_)*lda ]
Aoff(lda, i_, j_) == i_ + j_ * lda

\* The arrays x and y of a call: (n-1)*abs(inc) + 1 elements, the strided
\* ones from Her2Vals.
VecLen(nn, inc) == IF nn = 0 THEN 0 ELSE (nn - 1) * Abs(inc) + 1

Vecs(nn, inc) ==
    {v \in [0..(VecLen(nn, inc) - 1) -> Her2Vals \cup {Gap}] :
        \A k \in DOMAIN v :
            IF inc # 0 /\ k % Abs(inc) = 0 THEN v[k] # Gap ELSE v[k] = Gap}

\* The array A on entry: lda * n elements, each different from the others,
\* with a nonzero imaginary part.
Ain(nn, lda) == [k \in 0..(lda * nn - 1) |-> <<k + 1, 1>>]

\* svd_qr is not running.
NoSvdCall ==
    /\ uplo = "Upper" /\ want_u = FALSE /\ want_vt = FALSE
    /\ n = 0 /\ d = << >> /\ e = << >> /\ U = << >> /\ Vt = << >>
    /\ pc = "entry" /\ i = 0 /\ iter = 0 /\ istart = 0 /\ istop = 0
    /\ ret = NoRet /\ path = "none"
    /\ touchU = FALSE /\ touchVt = FALSE /\ oob = FALSE
    /\ shift_at = << >> /\ d_in = << >> /\ e_in = << >>

Her2Init ==
    /\ NoSvdCall
    /\ starpu = NoMatrix
    /\ \E layout \in {"ColMajor", "RowMajor"}, ul \in {"Upper", "Lower"},
          nn \in 0..Her2MaxN, alpha \in Her2Vals,
          incx \in (-Her2MaxInc)..Her2MaxInc,
          incy \in (-Her2MaxInc)..Her2MaxInc :
         \E lda \in Max(nn - 1, 0)..(nn + 1) :
           \E x \in Vecs(nn, incx), y \in Vecs(nn, incy) :
             her2 = [pc |-> "entry", layout |-> layout, uplo |-> ul,
                     uplo_in |-> ul, n |-> nn, alpha |-> alpha,
                     x |-> x, incx |-> incx, y |-> y, incy |-> incy,
                     A |-> Ain(nn, lda), lda |-> lda,
                     kx |-> 0, ky |-> 0, jx |-> 0, jy |-> 0, j |-> 0,
                     wrote |-> {}, A_in |-> Ain(nn, lda)]

\* blas_error_if( incx == 0 ); blas_error_if( incy == 0 );
\* blas_error_if( lda < n );  (layout and uplo are valid, n is unsigned)
BadArgs == her2.incx = 0 \/ her2.incy = 0 \/ her2.lda < her2.n

\* check arguments: an argument is rejected, her2 throws.
Her2Error ==
    /\ her2.pc = "entry"
    /\ BadArgs
    /\ her2' = [her2 EXCEPT !.pc = "error"]
    /\ UNCHANGED <<svd_vars, starpu>>

\* if (n == 0 || alpha == zero) return;
Her2QuickReturn ==
    /\ her2.pc = "entry"
    /\ ~BadArgs
    /\ her2.n = 0 \/ her2.alpha = zero
    /\ her2' = [her2 EXCEPT !.pc = "done"]
    /\ UNCHANGED <<svd_vars, starpu>>

\* Variant: the triangle named by the caller, whatever the layout.
KeepUplo(layout, ul) == ul

\* for row major, swap lower <=> upper
SwapUplo(layout, ul) ==
    IF layout = "RowMajor"
    THEN (IF ul = "Lower" THEN "Upper" ELSE "Lower")
    ELSE ul

\* size_t kx = (incx > 0 ? 0 : (-n + 1)*incx);
StartIndex(nn, inc) == IF inc > 0 THEN 0 ELSE ((-nn + 1) * inc) % SizeMod

\* Variant: the update runs without the quick return's test.
Her2StartUnguarded ==
    /\ her2.pc = "entry"
    /\ ~BadArgs
    /\ her2' = [her2 EXCEPT
                  !.pc = "loop",
                  !.uplo = SwapUplo(her2.layout, her2.uplo),
                  !.kx = StartIndex(her2.n, her2.incx),
                  !.ky = StartIndex(her2.n, her2.incy),
                  !.jx = StartIndex(her2.n, her2.incx),
                  !.jy = StartIndex(her2.n, her2.incy),
                  !.j = 0]
    /\ UNCHANGED <<svd_vars, starpu>>

\* No quick return: the layout's swap of uplo, kx, ky, and the j loop starts.
Her2Start ==
    /\ her2.pc = "entry"
    /\ ~BadArgs
    /\ ~(her2.n = 0 \/ her2.alpha = zero)
    /\ her2' = [her2 EXCEPT
                  !.pc = "loop",
                  !.uplo = SwapUplo(her2.layout, her2.uplo),
                  !.kx = StartIndex(her2.n, her2.incx),
                  !.ky = StartIndex(her2.n, her2.incy),
                  !.jx = StartIndex(her2.n, her2.incx),
                  !.jy = StartIndex(her2.n, her2.incy),
                  !.j = 0]
    /\ UNCHANGED <<svd_vars, starpu>>

\* A(i, j) += x[ix]*tmp1 + y[iy]*tmp2;  on the memory m = [A, wrote]
OffDiag(m, i_, j_, ix, iy, tmp1, tmp2) ==
    LET k == Aoff(her2.lda, i_, j_)
    IN  [A |-> [m.A EXCEPT ![k] = CAdd(m.A[k],
                                       CAdd(CMul(her2.x[ix], tmp1),
                                            CMul(her2.y[iy], tmp2)))],
         wrote |-> m.wrote \cup {k}]

\* A(j, j) = real( A(j, j) ) + real( x[jx]*tmp1 + y[jy]*tmp2 );
Diag(m, j_, jx, jy, tmp1, tmp2) ==
    LET k == Aoff(her2.lda, j_, j_)
    IN  [A |-> [m.A EXCEPT ![k] = CAdd(real(m.A[k]),
                                       real(CAdd(CMul(her2.x[jx], tmp1),
                                                 CMul(her2.y[jy], tmp2))))],
         wrote |-> m.wrote \cup {k}]

\* scalar_t tmp1 = alpha * conj( y[jy] );
Tmp1(jy) == CMul(her2.alpha, conj(her2.y[jy]))

\* scalar_t tmp2 = conj( alpha * x[jx] );
Tmp2(jx) == conj(CMul(her2.alpha, her2.x[jx]))

\* Upper: for (i = 0; i < j; ++i) { A(i, j) += ...; ix += incx; iy += incy; }
\* from i = i_ (unit stride: ix = iy = i, incx = incy = 1).
RECURSIVE UpperInner(_, _, _, _, _, _)
UpperInner(m, i_, ix, iy, tmp1, tmp2) ==
    IF i_ < her2.j
    THEN UpperInner(OffDiag(m, i_, her2.j, ix, iy, tmp1, tmp2), i_ + 1,
                    (ix + her2.incx) % SizeMod, (iy + her2.incy) % SizeMod,
                    tmp1, tmp2)
    ELSE m

\* Lower, unit stride: for (i = j+1; i < n; ++i) A(i, j) += x[i]*tmp1 + ...
RECURSIVE LowerInnerUnit(_, _, _, _)
LowerInnerUnit(m, i_, tmp1, tmp2) ==
    IF i_ < her2.n
    THEN LowerInnerUnit(OffDiag(m, i_, her2.j, i_, i_, tmp1, tmp2), i_ + 1,
                        tmp1, tmp2)
    ELSE m

\* Lower, non-unit stride: for (i = j+1; i < n; ++i)
\*   { ix += incx; iy += incy; A(i, j) += x[ix]*tmp1 + y[iy]*tmp2; }
RECURSIVE LowerInner(_, _, _, _, _, _)
LowerInner(m, i_, ix, iy, tmp1, tmp2) ==
    IF i_ < her2.n
    THEN LET ix2 == (ix + her2.incx) % SizeMod
             iy2 == (iy + her2.incy) % SizeMod
         IN  LowerInner(OffDiag(m, i_, her2.j, ix2, iy2, tmp1, tmp2), i_ + 1,
                        ix2, iy2, tmp1, tmp2)
    ELSE m

Mem == [A |-> her2.A, wrote |-> her2.wrote]

UnitStride == her2.incx = 1 /\ her2.incy = 1

\* One iteration of the j loop, uplo == Upper, unit stride.
Her2UpperUnit ==
    /\ her2.pc = "loop" /\ her2.j < her2.n
    /\ her2.uplo = "Upper" /\ UnitStride
    /\ LET tmp1 == Tmp1(her2.j)
           tmp2 == Tmp2(her2.j)
           m == Diag(UpperInner(Mem, 0, 0, 0, tmp1, tmp2), her2.j, her2.j,
                     her2.j, tmp1, tmp2)
       IN  her2' = [her2 EXCEPT !.A = m.A, !.wrote = m.wrote, !.j = @ + 1]
    /\ UNCHANGED <<svd_vars, starpu>>

\* One iteration of the j loop, uplo == Upper, non-unit stride.
Her2UpperStrided ==
    /\ her2.pc = "loop" /\ her2.j < her2.n
    /\ her2.uplo = "Upper" /\ ~UnitStride
    /\ LET tmp1 == Tmp1(her2.jy)
           tmp2 == Tmp2(her2.jx)
           m == Diag(UpperInner(Mem, 0, her2.kx, her2.ky, tmp1, tmp2),
                     her2.j, her2.jx, her2.jy, tmp1, tmp2)
       IN  her2' = [her2 EXCEPT !.A = m.A, !.wrote = m.wrote, !.j = @ + 1,
                                !.jx = (@ + her2.incx) % SizeMod,
                                !.jy = (@ + her2.incy) % SizeMod]
    /\ UNCHANGED <<svd_vars, starpu>>

\* One iteration of the j loop, lower triangle, unit stride.
Her2LowerUnit ==
    /\ her2.pc = "loop" /\ her2.j < her2.n
    /\ her2.uplo # "Upper" /\ UnitStride
    /\ LET tmp1 == Tmp1(her2.j)
           tmp2 == Tmp2(her2.j)
           m == LowerInnerUnit(Diag(Mem, her2.j, her2.j, her2.j, tmp1, tmp2),
                               her2.j + 1, tmp1, tmp2)
       IN  her2' = [her2 EXCEPT !.A = m.A, !.wrote = m.wrote, !.j = @ + 1]
    /\ UNCHANGED <<svd_vars, starpu>>

\* One iteration of the j loop, lower triangle, non-unit stride.
Her2LowerStrided ==
    /\ her2.pc = "loop" /\ her2.j < her2.n
    /\ her2.uplo # "Upper" /\ ~UnitStride
    /\ LET tmp1 == Tmp1(her2.jy)
           tmp2 == Tmp2(her2.jx)
           m == LowerInner(Diag(Mem, her2.j, her2.jx, her2.jy, tmp1, tmp2),
                           her2.j + 1, her2.jx, her2.jy, tmp1, tmp2)
       IN  her2' = [her2 EXCEPT !.A = m.A, !.wrote = m.wrote, !.j = @ + 1,
                                !.jx = (@ + her2.incx) % SizeMod,
                                !.jy = (@ + her2.incy) % SizeMod]
    /\ UNCHANGED <<svd_vars, starpu>>

\* The j loop is over: her2 returns.
Her2Return ==
    /\ her2.pc = "loop" /\ ~(her2.j < her2.n)
    /\ her2' = [her2 EXCEPT !.pc = "done"]
    /\ UNCHANGED <<svd_vars, starpu>>

Her2Next ==
    \/ Her2Error
    \/ Her2QuickReturn
    \/ Her2Start
    \/ Her2UpperUnit
    \/ Her2UpperStrided
    \/ Her2LowerUnit
    \/ Her2LowerStrided
    \/ Her2Return

Her2Spec == Her2Init /\ [][Her2Next]_vars

\* ------------------------------------------- starpu::Matrix, col and row
\* A matrix registered with StarPU and partitioned by create_grid into
\* NX x NY tiles.  starpu is the record of the grid g, of the matrix object
\* A = [ix, iy, nx, ny] (the tiles [ix, ix + nx) x [iy, iy + ny) of the
\* handle), of the build (checks: tlapack_check is compiled in) and of the
\* last col / row taken of A.

\* The grids: tile (0, 0) has mb x nb entries and so has every tile but
\* those of the last tile row, which have lastm rows, and of the last tile
\* column, which have lastn columns (the arithmetic of nrows() and ncols());
\* the block filters leave a last tile as large as the first or one shorter.
Grids ==
    {g \in [NX : 1..StarpuMaxGrid, NY : 1..StarpuMaxGrid,
            mb : 1..StarpuMaxTile, nb : 1..StarpuMaxTile,
            lastm : 1..StarpuMaxTile, lastn : 1..StarpuMaxTile] :
        /\ g.lastm \in {g.mb, g.mb - 1}
        /\ g.lastn \in {g.nb, g.nb - 1}
        /\ g.NX = 1 => g.lastm = g.mb
        /\ g.NY = 1 => g.lastn = g.nb}

\* starpu_matrix_get_nx(handle) and starpu_matrix_get_ny(handle): the size
\* of the whole matrix.
HandleRows(g) == (g.NX - 1) * g.mb + g.lastm

HandleCols(g) == (g.NY - 1) * g.nb + g.lastn

\* The matrix object create_grid leaves: all the tiles.
Whole(g) == [ix |-> 0, iy |-> 0, nx |-> g.NX, ny |-> g.NY]

StarpuInit ==
    /\ NoSvdCall
    /\ her2 = NoCall
    /\ \E g \in Grids, checks \in BOOLEAN :
         starpu = [pc |-> "ready", g |-> g, A |-> Whole(g),
                   checks |-> checks, op |-> "none", idx |-> 0,
                   passed |-> TRUE, view |-> Whole(g)]

\* Matrix::nblockrows(): the number of rows of tile 0.
nblockrows(g) == g.mb

\* Matrix::nblockcols(): the number of columns of tile (0, 0).
nblockcols(g) == g.nb

\* Matrix::nrows() of the matrix object M.
nrows(g, M) ==
    IF g.NX <= 1 THEN HandleRows(g)
    ELSE IF M.ix + M.nx < g.NX THEN M.nx * g.mb
    ELSE (M.nx - 1) * g.mb + g.lastm

\* Matrix::ncols() of the matrix object M.
ncols(g, M) ==
    IF g.NX <= 1 THEN HandleCols(g)
    ELSE IF g.NY <= 1 THEN HandleCols(g)
    ELSE IF M.iy + M.ny < g.NY THEN M.ny * g.nb
    ELSE (M.ny - 1) * g.nb + g.lastn

\* Matrix::get_tiles(ix, iy, nx, ny) of the matrix object M.
get_tiles(M, ix, iy, nx, ny) ==
    [ix |-> M.ix + ix, iy |-> M.iy + iy, nx |-> nx, ny |-> ny]

\* slice(A, rows, cols) with rows = (row0, row1), cols = (col0, col1), both
\* ranges nonempty: whether the four tlapack_check hold, and the tiles that
\* get_tiles is asked for.
slice(g, M, row0, row1, col0, col1) ==
    LET nr == row1 - row0
        nc == col1 - col0
        mb == nblockrows(g)
        nb == nblockcols(g)
    IN  [passed |->
            /\ row0 % mb = 0
            /\ col0 % nb = 0
            /\ \/ nr % mb = 0
               \/ row1 = nrows(g, M) /\ (nr - 1) % mb = 0
            /\ \/ nc % nb = 0
               \/ col1 = ncols(g, M) /\ (nc - 1) % nb = 0,
         view |-> get_tiles(M, row0 \div mb, col0 \div nb,
                            IF nr = 0 THEN 0 ELSE Max(nr \div mb, 1),
                            IF nc = 0 THEN 0 ELSE Max(nc \div nb, 1))]

\* The call op(A, k) went through slice with the result s: a failed
\* tlapack_check throws when the checks are compiled in; otherwise the tiles
\* are returned.
Sliced(op, k, s) ==
    [starpu EXCEPT !.pc = IF starpu.checks /\ ~s.passed THEN "error"
                          ELSE "view",
                   !.op = op, !.idx = k, !.passed = s.passed,
                   !.view = IF starpu.checks /\ ~s.passed THEN starpu.A
                            ELSE s.view]

\* col(A, colIdx) for a column of A.
StarpuCol ==
    /\ starpu.pc = "ready"
    /\ \E j \in 0..(ncols(starpu.g, starpu.A) - 1) :
         starpu' = Sliced("col", j,
                          slice(starpu.g, starpu.A,
                                0, nrows(starpu.g, starpu.A), j, j + 1))
    /\ UNCHANGED <<svd_vars, her2>>

\* row(A, rowIdx) for a row of A.
StarpuRow ==
    /\ starpu.pc = "ready"
    /\ \E k \in 0..(nrows(starpu.g, starpu.A) - 1) :
         starpu' = Sliced("row", k,
                          slice(starpu.g, starpu.A,
                                k, k + 1, 0, ncols(starpu.g, starpu.A)))
    /\ UNCHANGED <<svd_vars, her2>>

StarpuNext ==
    \/ StarpuCol
    \/ StarpuRow

StarpuSpec == StarpuInit /\ [][StarpuNext]_vars

\* ---------------------------------------------------------------- claims
Returned == pc = "done"

\* d[0] >= d[1] >= ... >= d[n-1] >= 0
SortedNonneg ==
    /\ \A j \in 0..(n - 1) : d[j] >= 0
    /\ \A j \in 0..(n - 2) : d[j] >= d[j + 1]

\* d is a rearrangement of the magnitudes of v.
SameMagnitudes(v) ==
    /\ DOMAIN v = DOMAIN d
    /\ \A x \in 0..Lim(n) :
         Cardinality({j \in DOMAIN d : d[j] = x}) =
         Cardinality({j \in DOMAIN v : Abs(v[j]) = x})

Identity == [j \in 0..(n - 1) |-> j + 1]

\* C1: whenever svd_qr returns 0 for n >= 1, d on exit is nonnegative and
\* sorted in descending order.
C1_ZeroReturnSorted == (Returned /\ ret = 0 /\ n >= 1) => SortedNonneg

C3_FailurePositive == (Returned /\ path = "fail") => (ret = istop /\ ret >= 1)

\* C4: in every execution in which istop <= 1 is reached, svd_qr runs the
\* post-processing and returns 0, also when istop <= 1 is reached by the
\* deflation of the 30*n-th outer iteration.
C4_ConvergedSucceeds ==
    (Returned /\ n >= 1 /\ istop <= 1) => (path = "post" /\ ret = 0)

\* The steps svd_qr has left at most: the phases in program order, and
\* within a phase the iterations its loop has left.
Rank ==
    LET phase == CASE pc = "entry" -> 5
                   [] pc = "norm" -> 4
                   [] pc = "main" -> 3
                   [] pc = "sign" -> 2
                   [] pc = "sort" -> 1
                   [] pc = "done" -> 0
        left == CASE pc = "main" -> itmax - iter + 1
                  [] pc \in {"norm", "sign", "sort"} -> n - i
                  [] OTHER -> 0
    IN  phase * (itmax + n + 2) + left

\* C5: svd_qr terminates on every input: the outer loop body runs at most
\* 30*n times (iter counts its runs), the routine can always take a step
\* until it has returned, and every step lowers the number of steps left,
\* which is never negative; so it never loops forever.
C5_Terminates ==
    /\ [](iter <= ItFactor * n /\ Rank >= 0)
    /\ [](Returned \/ ENABLED Next)
    /\ [][Rank' < Rank]_vars

\* C5 witness: a return after the whole budget of a problem of order 3 was
\* spent.
C5_Witness == Returned /\ n = 3 /\ iter = ItFactor * n

\* C6: with n = 0, svd_qr returns 0 immediately and mutates none of d, e, U,
\* Vt.
C6_EmptyQuickReturn ==
    n = 0 =>
        /\ pc \in {"entry", "done"}
        /\ d = d_in /\ e = e_in /\ U = Identity /\ Vt = Identity
        /\ ~touchU /\ ~touchVt /\ iter = 0
        /\ Returned => (ret = 0 /\ path = "quick")

\* C6 witness: the return of a call with n = 0, uplo = Lower and both flags
\* set.
C6_Witness == Returned /\ n = 0 /\ uplo = "Lower" /\ want_u /\ want_vt

\* C7: if want_u is false, U is neither read nor written; if want_vt is
\* false, Vt is neither read nor written; on success and on failure.
C7_UnwantedUntouched ==
    /\ ~want_u => (~touchU /\ U = Identity)
    /\ ~want_vt => (~touchVt /\ Vt = Identity)

\* C7 witness: a failure return and a success return of calls that did sweep
\* and sort, one flag set and the other not.
C7_Witness ==
    /\ Returned /\ n = 3 /\ oob
    /\ \/ path = "fail" /\ ~want_u /\ want_vt /\ touchVt
       \/ path = "post" /\ want_u /\ ~want_vt /\ touchU /\ U # Identity

\* The input was diagonal (e all zero), n >= 1.
DiagonalInput == n >= 1 /\ DOMAIN d_in = DOMAIN d /\ AllZero(e_in)

\* C8: for an input whose e is all zero, svd_qr returns 0 by immediate
\* convergence: every outer iteration is a 1x1 deflation (no sweep, no 2x2
\* solve), no rotation other than the identity reaches U or Vt, and d on exit
\* is the input d with negative entries negated, sorted descending.
C8_DiagonalInput ==
    DiagonalInput =>
        /\ AllZero(e)
        /\ \A j \in 0..(n - 1) : U[j] # Mixed /\ Vt[j] # Mixed
        /\ pc \in {"entry", "norm", "main"} =>
              (d = d_in /\ U = Identity /\ Vt = Identity)
        /\ pc = "main" => (istop = n - iter /\ istart = 0)
        /\ ~oob
        /\ Returned =>
              (ret = 0 /\ path = "post" /\ iter = n - 1 /\ SortedNonneg
               /\ SameMagnitudes(d_in))

\* C8 witness: the return for a lower-bidiagonal diagonal input of order 3
\* with a negative entry, out of order, vectors wanted.
C8_Witness ==
    /\ Returned /\ DiagonalInput /\ n = 3 /\ uplo = "Lower"
    /\ want_u /\ want_vt
    /\ d_in[0] = 0 /\ d_in[1] < 0 /\ d_in[2] > 0

\* The input of the known 2x2 case.
Known22Input ==
    /\ uplo = "Upper" /\ ~want_u /\ ~want_vt /\ n = 2
    /\ d_in = (0 :> 3 @@ 1 :> 0) /\ e_in = (0 :> 4)

\* C9: for d = [3, 0], e = [4], upper, no vectors, svd_qr takes the 2x2
\* branch once, returns 0 and leaves d = [5, 0], e = [0].
C9_Known22 ==
    (Known22Input /\ Returned) =>
        /\ ret = 0 /\ path = "post"
        /\ iter = 1 /\ istop = 0
        /\ d = (0 :> 5 @@ 1 :> 0)
        /\ e = (0 :> 0)

\* C9 witness: the return of that call.
C9_Witness == Known22Input /\ Returned /\ d[0] = 5

\* C11: each step of the sign normalization, at index i: if d[i] < 0 it is
\* negated and, iff want_vt, row i of Vt is multiplied by -1 (so that the
\* product of d[i] and row i of Vt keeps its sign); if d[i] >= 0, d and Vt are
\* unchanged; no other entry of d, no other row of Vt, and neither U nor e is
\* modified, and U is not accessed.
C11_SignNormalization ==
    [][pc = "sign" =>
        /\ d' = [d EXCEPT ![i] = IF d[i] < 0 THEN -d[i] ELSE d[i]]
        /\ Vt' = IF d[i] < 0 /\ want_vt THEN [Vt EXCEPT ![i] = -Vt[i]] ELSE Vt
        /\ want_vt => Sgn(d'[i]) * Vt'[i] = Sgn(d[i]) * Vt[i]
        /\ touchVt' = (touchVt \/ (d[i] < 0 /\ want_vt))
        /\ U' = U /\ touchU' = touchU /\ e' = e
        /\ i' = (IF i + 1 < n THEN i + 1 ELSE 0)]_vars

\* C11 witness: the sign normalization is over for a diagonal input of order
\* 3 with vectors wanted: d[0] < 0 was negated and row 0 of Vt scaled by -1,
\* d[1] > 0 and row 1 of Vt are as they were, U is as it was.
C11_Witness ==
    /\ pc = "sort" /\ i = 0 /\ DiagonalInput /\ n = 3 /\ want_u /\ want_vt
    /\ d_in[0] < 0 /\ d[0] = -d_in[0] /\ Vt[0] = -1
    /\ d_in[1] > 0 /\ d[1] = d_in[1] /\ Vt[1] = 2
    /\ U = Identity

\* C12: each step of the sort, at index i with imax the first index of
\* largest magnitude in d[i..n): d[imax] and d[i] are swapped, and with them
\* columns imax and i of U iff want_u and rows imax and i of Vt iff want_vt;
\* nothing else changes, and when imax == i nothing is swapped and neither U
\* nor Vt is accessed.  Hence, where the columns and rows can be told apart
\* (a diagonal input, both flags set), during and after the sort the
\* columns of U and the rows of Vt are the same rearrangement of the
\* original ones, and d[j] is the magnitude of the entry that belonged to
\* column U[j].
C12_SortLockStep ==
    /\ [][(pc = "sort" /\ pc' = "sort") =>
            \E imax \in i..(n - 1) :
                /\ \A j \in i..(n - 1) : Abs(d[imax]) >= Abs(d[j])
                /\ \A j \in i..(imax - 1) : Abs(d[j]) < Abs(d[imax])
                /\ d' = [d EXCEPT ![imax] = d[i], ![i] = d[imax]]
                /\ U' = IF want_u
                        THEN [U EXCEPT ![imax] = U[i], ![i] = U[imax]]
                        ELSE U
                /\ Vt' = IF want_vt
                         THEN [Vt EXCEPT ![imax] = Vt[i], ![i] = Vt[imax]]
                         ELSE Vt
                /\ touchU' = (touchU \/ (imax # i /\ want_u))
                /\ touchVt' = (touchVt \/ (imax # i /\ want_vt))
                /\ e' = e /\ i' = i + 1]_vars
    /\ []((DiagonalInput /\ want_u /\ want_vt /\ pc \in {"sort", "done"}) =>
            /\ \A j \in 0..(n - 1) :
                  /\ U[j] \in 1..n
                  /\ Abs(Vt[j]) = U[j]
                  /\ d[j] = Abs(d_in[U[j] - 1])
            /\ \A j, k \in 0..(n - 1) : U[j] = U[k] => j = k)

\* C12 witness: the return for the diagonal input d = [0, -1, 1] with both
\* flags set: the sort swapped 0 with 1, then 1 with 2, in d, U and Vt alike.
C12_Witness ==
    /\ Returned /\ DiagonalInput /\ n = 3 /\ want_u /\ want_vt
    /\ d_in = (0 :> 0 @@ 1 :> -1 @@ 2 :> 1)
    /\ d = (0 :> 1 @@ 1 :> 1 @@ 2 :> 0)
    /\ U = (0 :> 2 @@ 1 :> 3 @@ 2 :> 1)
    /\ Vt = (0 :> -2 @@ 1 :> 3 @@ 2 :> 1)

\* C13: her2 leaves A completely unchanged when alpha is zero or n is 0:
\* for any layout, uplo, strides and vector contents, no element of A is
\* written and the routine never enters its update loop.
C13_Her2NoUpdate ==
    (her2.n = 0 \/ her2.alpha = zero) =>
        /\ her2.A = her2.A_in
        /\ her2.wrote = {}
        /\ her2.pc \in {"entry", "done", "error"}

\* C13 witness: the return of a call with alpha zero, n = 2, row-major,
\* lower, a negative stride, x and y not zero.
C13_Witness ==
    /\ her2.pc = "done" /\ her2.alpha = zero /\ her2.n = 2
    /\ her2.layout = "RowMajor" /\ her2.uplo_in = "Lower"
    /\ her2.incx = -2 /\ her2.incy = 1 /\ her2.lda = 3
    /\ her2.x[0] = <<0, 1>> /\ her2.y[1] = <<1, 0>>

\* The place in memory of the entry in row r and column c of A.
Entry(r, c) ==
    IF her2.layout = "ColMajor" THEN r + c * her2.lda ELSE c + r * her2.lda

\* The places of the entries of the triangle that the caller's uplo selects.
Selected ==
    {Entry(rc[1], rc[2]) :
        rc \in {q \in (0..(her2.n - 1)) \X (0..(her2.n - 1)) :
                  IF her2.uplo_in = "Upper" THEN q[1] <= q[2]
                  ELSE q[1] >= q[2]}}

\* C14: her2 writes only entries of the selected triangle (upper: row <=
\* column, lower: row >= column; in memory A[i + j*lda] with i <= j for
\* column-major upper and row-major lower, i >= j for the two others); every
\* other element of A, the opposite strict triangle included, keeps its
\* value, for unit and non-unit strides alike.
C14_Her2TriangleOnly ==
    /\ her2.wrote \subseteq Selected
    /\ \A k \in DOMAIN her2.A : k \notin Selected => her2.A[k] = her2.A_in[k]

\* C14 witness: the return of a row-major, upper, n = 2, lda = 3 call with
\* strides -2 and 1 that wrote the three entries of the upper triangle and
\* changed the off-diagonal one.
C14_Witness ==
    /\ her2.pc = "done" /\ her2.n = 2 /\ her2.lda = 3
    /\ her2.layout = "RowMajor" /\ her2.uplo_in = "Upper"
    /\ her2.incx = -2 /\ her2.incy = 1
    /\ her2.wrote = {0, 1, 4}
    /\ her2.A[1] # her2.A_in[1] /\ her2.A[3] = her2.A_in[3]

\* An outer iteration that reached the shift selection and swept: the body
\* ran and left istop as it was.
SweepStep == pc = "main" /\ iter' = iter + 1 /\ istop' = istop

\* C15: in every outer iteration that reaches the shift selection, the
\* candidate shift is computed from the trailing 2x2 block of the active
\* block: the entries read are d[istop-2], e[istop-2], d[istop-1].
C15_ShiftFromTrailingBlock ==
    [][SweepStep => shift_at' = <<istop - 2, istop - 2, istop - 1>>]_vars

\* C16: svd_qr is memory safe: no access to d outside [0, n) and none to e
\* outside [0, n-1) ever happens, in particular not in the shift selection of
\* a sweep with istop == n.
C16_MemorySafe ==
    /\ ~oob
    /\ shift_at # << >> =>
          /\ InBounds(shift_at[1], n) /\ InBounds(shift_at[3], n)
          /\ InBounds(shift_at[2], n - 1)

\* C17: the boundary of the active block: between outer iterations, and
\* when the scanner has run (before a 1x1 deflation, a 2x2 solve or a sweep),
\* if istart > 0 then e[istart-1] is exactly zero; a sweep, zero-shift or
\* not, leaves istart where the scanner put it and changes nothing before the
\* active block: e[0..istart-1] (e[istart-1] included) and d[0..istart-1].
C17_BlockBoundary ==
    /\ []((pc = "main" /\ istart > 0) => e[istart - 1] = 0)
    /\ [](Body => (Scan.istart > 0 => Scan.e[Scan.istart - 1] = 0))
    /\ [][SweepStep =>
            /\ istart' = Scan.istart
            /\ istart' > 0 => e'[istart' - 1] = 0
            /\ \A j \in 0..(istart' - 1) :
                  e'[j] = Scan.e[j] /\ d'[j] = d[j]]_vars

\* C17 witness: after a sweep of the block [1, 4) of an input of order 4
\* (e[0] == 0 on entry) that left e[1], e[2], d[1] and d[0] nonzero.
C17_Witness ==
    /\ pc = "main" /\ n = 4 /\ istart = 1 /\ istop = 4
    /\ shift_at = <<3, 3, 4>> /\ iter >= 1
    /\ e[0] = 0 /\ e[1] # 0 /\ e[2] # 0 /\ d[1] # 0 /\ d[0] # 0

\* C18: the active block shrinks monotonically: istop never increases; it
\* changes only by -1, in an iteration whose scan ends with istart ==
\* istop-1, or by -2, in an iteration whose scan ends with istart ==
\* istop-2; 0 <= istart < istop <= n holds whenever the scanner is entered;
\* and once istop is below n every e[j] with j >= istop-1 is zero.
C18_BlockShrinks ==
    /\ [][/\ istop' <= istop
          /\ istop' # istop =>
                /\ Body
                /\ \/ istop' = istop - 1 /\ Scan.istart = istop - 1
                   \/ istop' = istop - 2 /\ Scan.istart = istop - 2]_vars
    /\ [](Body => (0 <= istart /\ istart < istop /\ istop <= n))
    /\ []((pc # "entry" /\ istop < n) =>
            \A j \in DOMAIN e : j >= istop - 1 => e[j] = 0)

\* C18 witness: an input of order 4 after the deflation of d[3] and a sweep
\* of the block [0, 3) that left e[0] and e[1] nonzero.
C18_Witness ==
    /\ pc = "main" /\ n = 4 /\ istart = 0 /\ istop = 3
    /\ shift_at = <<2, 2, 3>> /\ iter >= 2
    /\ e[2] = 0 /\ e[1] # 0 /\ e[0] # 0

\* The indices the scanner looks at whose off-diagonal entry is negligible:
\* istart < k < istop with |e[k-1]| <= 10 * eps * |d[k]|.
Qualifies ==
    {k \in (istart + 1)..(istop - 1) :
        EpsInv * Abs(e[k - 1]) <= TolFactor * Abs(d[k])}

\* What the scanner is said to leave in e and istart.
Scanned ==
    IF Qualifies = {} THEN [e |-> e, istart |-> istart]
    ELSE LET k == CHOOSE k \in Qualifies : \A j \in Qualifies : j <= k
         IN  [e |-> [e EXCEPT ![k - 1] = 0], istart |-> k]

\* C19: the scanner, going from i = istop-1 down to istart+1, zeroes e[i-1]
\* at the largest i with |e[i-1]| <= 10*eps*|d[i]|, makes that i the new
\* istart and stops; it changes at most that one entry of e and leaves e and
\* istart as they were when no i qualifies; it changes no entry of d (the
\* iteration of a 1x1 deflation, which does nothing but scan and move
\* istart and istop, leaves d as it was and e as the scanner left it).
C19_Scanner ==
    /\ [](Body =>
            /\ Scan = Scanned
            /\ Cardinality({j \in DOMAIN e : Scan.e[j] # e[j]}) <= 1)
    /\ [][(Body /\ iter' = iter + 1 /\ istop' = istop - 1) =>
            (e' = Scanned.e /\ d' = d)]_vars

\* C19 witness: d = [., 4], e = [1], upper: the scan zeroed e[0], which was
\* not zero but within the tolerance of d[1], and the iteration deflated d[1].
C19_Witness ==
    /\ pc = "main" /\ n = 2 /\ uplo = "Upper" /\ iter = 1
    /\ e_in[0] = 1 /\ d_in[1] = 4
    /\ istop = 1 /\ istart = 0 /\ e[0] = 0 /\ d = d_in

\* C20: when the scanner leaves istart == istop-1, the iteration sets istop
\* to that istart and istart to 0 and does nothing else: d, U and Vt are
\* unchanged (e is as the scanner left it), U and Vt are not accessed, no
\* shift is computed and no sweep runs; the loop goes on to its next
\* iteration.
C20_Deflate1x1 ==
    [][(Body /\ Scan.istart = istop - 1) =>
        /\ istop' = Scan.istart
        /\ istart' = 0
        /\ d' = d /\ e' = Scan.e /\ U' = U /\ Vt' = Vt
        /\ touchU' = touchU /\ touchVt' = touchVt
        /\ shift_at' = shift_at /\ oob' = oob
        /\ iter' = iter + 1 /\ pc' = "main"]_vars

\* C20 witness: an input of order 3 with both flags set, after sweeps that
\* wrote U and Vt and the 1x1 deflation of d[2] that followed them.
C20_Witness ==
    /\ pc = "main" /\ n = 3 /\ want_u /\ want_vt
    /\ istop = 2 /\ istart = 0 /\ shift_at = <<2, 2, 3>> /\ iter >= 2
    /\ e[1] = 0 /\ e[0] # 0 /\ U[2] = Mixed /\ Vt[2] = Mixed

\* C21: when the scanner leaves an active block of size 2 (istart + 2 ==
\* istop), the iteration replaces d[istart], d[istart+1] by the two values
\* of the 2x2 solver for (d[istart], e[istart], d[istart+1]), the one of
\* larger magnitude first, sets e[istart] to zero, applies the left rotation
\* to columns istart, istart+1 of U iff want_u and the right rotation to
\* rows istart, istart+1 of Vt iff want_vt, decreases istop by 2 and resets
\* istart to 0; no other entry of d or e (as the scanner left it), no other
\* column of U or row of Vt is changed, and no shift is computed.
C21_Deflate2x2 ==
    [][(Body /\ Scan.istart + 2 = istop) =>
        LET is == Scan.istart
        IN  /\ \E v \in svd22(Lim(n), d[is], Scan.e[is], d[is + 1]) :
                  /\ d' = [d EXCEPT ![is] = v.ssmax, ![is + 1] = v.ssmin]
                  /\ U' = IF want_u THEN rot(U, is, is + 1, v.csl, v.snl)
                          ELSE U
                  /\ Vt' = IF want_vt THEN rot(Vt, is, is + 1, v.csr, v.snr)
                           ELSE Vt
            /\ Abs(d'[is]) >= Abs(d'[is + 1])
            /\ e' = [Scan.e EXCEPT ![is] = 0]
            /\ \A j \in DOMAIN d \ {is, is + 1} :
                  d'[j] = d[j] /\ U'[j] = U[j] /\ Vt'[j] = Vt[j]
            /\ touchU' = (touchU \/ want_u)
            /\ touchVt' = (touchVt \/ want_vt)
            /\ istop' = istop - 2 /\ istart' = 0
            /\ shift_at' = shift_at /\ oob' = oob
            /\ iter' = iter + 1 /\ pc' = "main"]_vars

\* C21 witness: an upper input of order 3 with e[0] == 0 and both flags set,
\* after its first iteration: the block [1, 3) was solved, columns 1, 2 of U
\* and rows 1, 2 of Vt were rotated, column 0 and row 0 were not.
C21_Witness ==
    /\ pc = "main" /\ n = 3 /\ uplo = "Upper" /\ want_u /\ want_vt
    /\ iter = 1 /\ istop = 1 /\ istart = 0 /\ AllZero(e)
    /\ d[1] # 0 /\ d[2] # 0 /\ d[0] # 0
    /\ U = (0 :> 1 @@ 1 :> Mixed @@ 2 :> Mixed)
    /\ Vt = (0 :> 1 @@ 1 :> Mixed @@ 2 :> Mixed)

\* The outcomes <<d, e, U, Vt>> of a zero-shift sweep of a block of size 3
\* that begins at lo: the loop body at i = lo, then at i = lo + 1, then the
\* closing assignments.
ZeroSweep3(lo) ==
    LET L == Lim(n)
        s0 == [d |-> d, e |-> Scan.e, U |-> U, Vt |-> Vt,
               cs |-> One, sn |-> 0, oldcs |-> One, oldsn |-> 0]
        S1 == ZeroStep(L, s0, lo, lo)
        S2 == UNION {ZeroStep(L, s1, lo + 1, lo) : s1 \in S1}
    IN  {<<s3.d, s3.e, s3.U, s3.Vt>> :
            s3 \in UNION {ZeroEnd(s2, lo + 3) : s2 \in S2}}

\* The same for a sweep with the nonzero shift sh.
ShiftSweep3(lo, sh) ==
    LET L == Lim(n)
        S0 == {[d |-> d, e |-> Scan.e, U |-> U, Vt |-> Vt,
                f |-> f0, g |-> Scan.e[lo]] : f0 \in ShiftF(L, d[lo], sh)}
        S1 == UNION {ShiftStep(L, s0, lo, lo, lo + 3) : s0 \in S0}
        S2 == UNION {ShiftStep(L, s1, lo + 1, lo, lo + 3) : s1 \in S1}
    IN  {<<s2.d, [s2.e EXCEPT ![lo + 1] = s2.f], s2.U, s2.Vt>> : s2 \in S2}

\* C22: for an active block of size >= 3 (of size 3, in the inputs checked)
\* an outer iteration runs exactly one sweep: the zero-shift one if the shift
\* selected is exactly zero, the nonzero-shift one otherwise; the sweep runs
\* its loop body at i = istart, ..., istop-2, once each in ascending order;
\* istop is unchanged and istart stays where the scanner put it: nothing is
\* deflated in that iteration.
C22_OneSweep ==
    [][(Body /\ SweepBlock(Scan)) =>
        /\ istop = Scan.istart + 3
        /\ istop' = istop /\ istart' = Scan.istart
        /\ iter' = iter + 1 /\ pc' = "main"
        /\ \/ /\ 0 \in Shifts(Scan)
              /\ <<d', e', U', Vt'>> \in ZeroSweep3(Scan.istart)
           \/ \E sh \in Shifts(Scan) \ {0} :
                 <<d', e', U', Vt'>> \in ShiftSweep3(Scan.istart, sh)]_vars

\* C22 witness: an input of order 3 with both flags set after two sweeps of
\* [0, 3) that deflated nothing.
C22_Witness ==
    /\ pc = "main" /\ n = 3 /\ want_u /\ want_vt
    /\ iter = 2 /\ istop = 3 /\ istart = 0 /\ shift_at = <<2, 2, 3>>
    /\ e[0] # 0 /\ e[1] # 0
    /\ \A j \in 0..2 : U[j] = Mixed /\ Vt[j] = Mixed

C24_NoDivisionByZero ==
    (Body /\ SweepBlock(Scan) /\ Shifts(Scan) \ {0} # {}) =>
        d[Scan.istart] # 0

\* C25: the lower-to-upper normalizer runs iff uplo == Lower (and n >= 2, or
\* its loop has no iteration); it processes i = 0, ..., n-2 once each in
\* ascending order; its step i writes only d[i], e[i], d[i+1] and, iff
\* want_u, columns i, i+1 of U (nothing at all when e[i] is zero but the
\* identity rotation); it never accesses Vt and never returns: the main loop
\* always follows.  With uplo == Upper, d, e, U and Vt reach the main loop
\* unchanged.
C25_Normalizer ==
    /\ [](pc = "norm" => (uplo = "Lower" /\ i \in 0..(n - 2)))
    /\ []((pc = "main" /\ iter = 0) =>
            i = (IF uplo = "Lower" /\ n >= 2 THEN n - 1 ELSE 0))
    /\ [][pc = "entry" =>
            /\ d' = d /\ e' = e /\ U' = U /\ Vt' = Vt
            /\ touchU' = touchU /\ touchVt' = touchVt
            /\ n # 0 => /\ pc' = (IF uplo = "Lower" /\ n >= 2 THEN "norm"
                                  ELSE "main")
                        /\ i' = 0 /\ iter' = 0]_vars
    /\ [][pc = "norm" =>
            /\ i' = i + 1
            /\ pc' = (IF i + 1 <= n - 2 THEN "norm" ELSE "main")
            /\ ret' = ret /\ path' = path /\ iter' = 0
            /\ \A j \in DOMAIN d \ {i, i + 1} : d'[j] = d[j] /\ U'[j] = U[j]
            /\ \A j \in DOMAIN e \ {i} : e'[j] = e[j]
            /\ Vt' = Vt /\ touchVt' = touchVt
            /\ touchU' = (touchU \/ want_u)
            /\ ~want_u => U' = U
            /\ e[i] = 0 => (d' = d /\ e'[i] = 0 /\ U' = U)
            /\ e[i] # 0 =>
                  /\ Abs(d'[i]) >= Max(Abs(d[i]), Min(Abs(e[i]), Lim(n)))
                  /\ Abs(e'[i]) <= Abs(d[i + 1])
                  /\ Abs(d'[i + 1]) <= Abs(d[i + 1])
                  /\ want_u => (U'[i] = Mixed /\ U'[i + 1] = Mixed)]_vars

\* C25 witness: the main loop is about to start for a lower-bidiagonal input
\* of order 3 with both flags set whose e[0] and e[1] became nonzero: every
\* column of U was rotated, Vt is as it was.
C25_Witness ==
    /\ pc = "main" /\ iter = 0 /\ uplo = "Lower" /\ n = 3 /\ i = 2
    /\ want_u /\ want_vt
    /\ e[0] # 0 /\ e[1] # 0
    /\ \A j \in 0..2 : U[j] = Mixed
    /\ Vt = Identity /\ ~touchVt

\* ---- svd_qr without the accumulators: what the routine does to d, e and
\* its control state, written without want_u, want_vt, U and Vt.

\* The control state: the part of the state that is not uplo, n, d, e,
\* want_u, want_vt, U, Vt or the record of the accesses to U and Vt.
ctl == <<pc, i, iter, istart, istop, ret, path, oob, shift_at>>

\* Lines 217-233 on d and e alone: one iteration i = k of the zero-shift
\* sweep's loop.
ZeroStepDE(L, st, k, lo) ==
    UNION {{[d |-> [st.d EXCEPT ![k] = g2.r],
             e |-> IF k > lo THEN [st.e EXCEPT ![k - 1] = b] ELSE st.e,
             cs |-> g1.c, sn |-> g1.s, oldcs |-> g2.c, oldsn |-> g2.s] :
               b \in Times(st.oldsn, g1.r),
               g2 \in UNION {lartg(L, p, q) :
                               p \in Times(st.oldcs, g1.r),
                               q \in Times(g1.s, st.d[k + 1])}} :
           g1 \in UNION {lartg(L, a, st.e[k]) : a \in Times(st.cs, st.d[k])}}

RECURSIVE ZeroLoopDE(_, _, _, _, _)
ZeroLoopDE(L, S, k, lo, hi) ==
    IF k < hi - 1
    THEN ZeroLoopDE(L, UNION {ZeroStepDE(L, st, k, lo) : st \in S},
                    k + 1, lo, hi)
    ELSE S

\* Lines 209-237 on d and e alone: the pairs <<d, e>> a zero-shift sweep of
\* [lo, hi) can leave.
ZeroSweepDE(L, dd, ee, lo, hi) ==
    {<<st.d, st.e>> :
        st \in UNION {ZeroEnd(s1, hi) :
                        s1 \in ZeroLoopDE(L, {[d |-> dd, e |-> ee,
                                               cs |-> One, sn |-> 0,
                                               oldcs |-> One, oldsn |-> 0]},
                                          lo, lo, hi)}}

\* Lines 243-272 on d and e alone: one iteration i = k of the nonzero-shift
\* sweep's loop.
ShiftStepDE(L, st, k, lo, hi) ==
    UNION {UNION {
        {[d |-> [st.d EXCEPT ![k] = gl.r, ![k + 1] = y],
          e |-> LET e1 == IF k > lo THEN [st.e EXCEPT ![k - 1] = gr.r]
                          ELSE st.e
                    e2 == [e1 EXCEPT ![k] = ek]
                IN  IF k + 1 < hi - 1 THEN [e2 EXCEPT ![k + 1] = en] ELSE e2,
          f |-> f2,
          g |-> IF k + 1 < hi - 1 THEN gn ELSE st.g] :
            f2 \in UNION {Plus(L, a, b) : a \in Times(gl.c, ek),
                                          b \in Times(gl.s, dk1)},
            y \in UNION {Minus(L, a, b) : a \in Times(gl.c, dk1),
                                          b \in Times(gl.s, ek)},
            gn \in IF k + 1 < hi - 1 THEN Times(gl.s, st.e[k + 1]) ELSE {0},
            en \in IF k + 1 < hi - 1 THEN Times(gl.c, st.e[k + 1]) ELSE {0}} :
              ek \in UNION {Minus(L, a, b) : a \in Times(gr.c, st.e[k]),
                                             b \in Times(gr.s, st.d[k])},
              dk1 \in Times(gr.c, st.d[k + 1]),
              gl \in UNION {lartg(L, f1, g1) :
                              f1 \in UNION {Plus(L, a, b) :
                                              a \in Times(gr.c, st.d[k]),
                                              b \in Times(gr.s, st.e[k])},
                              g1 \in Times(gr.s, st.d[k + 1])}} :
           gr \in lartg(L, st.f, st.g)}

RECURSIVE ShiftLoopDE(_, _, _, _, _)
ShiftLoopDE(L, S, k, lo, hi) ==
    IF k < hi - 1
    THEN ShiftLoopDE(L, UNION {ShiftStepDE(L, st, k, lo, hi) : st \in S},
                     k + 1, lo, hi)
    ELSE S

\* Lines 238-274 on d and e alone: the pairs <<d, e>> a sweep of [lo, hi)
\* with the nonzero shift sh can leave.
ShiftSweepDE(L, dd, ee, lo, hi, sh) ==
    {<<st.d, [st.e EXCEPT ![hi - 2] = st.f]>> :
        st \in ShiftLoopDE(L, {[d |-> dd, e |-> ee, f |-> f0, g |-> ee[lo]] :
                                  f0 \in ShiftF(L, dd[lo], sh)}, lo, lo, hi)}

\* The pairs <<d, e>> the sweep of the current iteration can leave.
SweepDE ==
    (IF 0 \in Shifts(Scan)
     THEN ZeroSweepDE(Lim(n), d, Scan.e, Scan.istart, istop) ELSE {})
    \cup UNION {ShiftSweepDE(Lim(n), d, Scan.e, Scan.istart, istop, sh) :
                  sh \in Shifts(Scan) \ {0}}

\* The same pairs as the sweeps of the routine, accumulators included, leave
\* them.
SweepFull ==
    (IF 0 \in Shifts(Scan)
     THEN {<<st.d, st.e>> :
             st \in ZeroSweep(Lim(n), Scan.e, Scan.istart, istop)}
     ELSE {})
    \cup UNION {{<<st.d, st.e>> :
                   st \in ShiftSweep(Lim(n), Scan.e, Scan.istart, istop, sh)} :
                 sh \in Shifts(Scan) \ {0}}

\* Lines 101-308 on the control state alone: the control state one step of
\* the routine leads to.
CoreCtl ==
    LET sc == Scan
    IN  CASE pc = "entry" ->
                IF n = 0
                THEN <<"done", i, iter, istart, istop, 0, "quick", oob,
                       shift_at>>
                ELSE <<IF uplo = "Lower" /\ 0 < n - 1 THEN "norm"
                       ELSE "main",
                       0, 0, 0, n, ret, path, oob, shift_at>>
          [] pc = "norm" ->
                <<IF i + 1 < n - 1 THEN "norm" ELSE "main",
                  i + 1, iter, istart, istop, ret, path, oob, shift_at>>
          [] pc = "main" ->
                IF iter = itmax
                THEN <<"done", i, iter, istart, istop, istop, "fail", oob,
                       shift_at>>
                ELSE IF istop <= 1
                THEN <<"sign", 0, iter, istart, istop, ret, path, oob,
                       shift_at>>
                ELSE IF sc.istart = istop - 1
                THEN <<"main", i, iter + 1, 0, istop - 1, ret, path, oob,
                       shift_at>>
                ELSE IF sc.istart + 1 = istop - 1
                THEN <<"main", i, iter + 1, 0, istop - 2, ret, path, oob,
                       shift_at>>
                ELSE <<"main", i, iter + 1, sc.istart, istop, ret, path,
                       oob \/ ~InBounds(istop, n)
                           \/ ~InBounds(istop - 1, n - 1),
                       <<istop - 1, istop - 1, istop>> >>
          [] pc = "sign" ->
                <<IF i + 1 < n THEN "sign" ELSE "sort",
                  IF i + 1 < n THEN i + 1 ELSE 0,
                  iter, istart, istop, ret, path, oob, shift_at>>
          [] pc = "sort" ->
                IF i < n - 1
                THEN <<"sort", i + 1, iter, istart, istop, ret, path, oob,
                       shift_at>>
                ELSE <<"done", i, iter, istart, istop, 0, "post", oob,
                       shift_at>>
          [] OTHER -> ctl

\* Lines 101-308 on d and e alone: the pairs <<d, e>> one step of the
\* routine can lead to.
CoreDE ==
    LET sc == Scan
        is == sc.istart
    IN  CASE pc = "entry" -> {<<d, e>>}
          [] pc = "norm" ->
                UNION {{<<[d EXCEPT ![i] = g.r, ![i + 1] = y],
                          [e EXCEPT ![i] = x]>> :
                          x \in Times(g.s, d[i + 1]),
                          y \in Times(g.c, d[i + 1])} :
                       g \in lartg(Lim(n), d[i], e[i])}
          [] pc = "main" ->
                IF iter = itmax \/ istop <= 1 THEN {<<d, e>>}
                ELSE IF is = istop - 1 THEN {<<d, sc.e>>}
                ELSE IF is + 1 = istop - 1
                THEN {<<[d EXCEPT ![is] = p[1], ![is + 1] = p[2]],
                        [sc.e EXCEPT ![is] = 0]>> :
                        p \in {<<v.ssmax, v.ssmin>> :
                                 v \in svd22(Lim(n), d[is], sc.e[is],
                                             d[is + 1])}}
                ELSE SweepDE
          [] pc = "sign" -> {<<[d EXCEPT ![i] = Abs(d[i])], e>>}
          [] pc = "sort" ->
                IF i < n - 1
                THEN LET imax == i + iamax(d, i, n - 1)
                     IN  {<<[d EXCEPT ![imax] = d[i], ![i] = d[imax]], e>>}
                ELSE {<<d, e>>}
          [] OTHER -> {}

\* C26: the vector accumulators do not interfere: in every reachable state
\* the next values of d, e, the return value and the control state
\* (deflation, sweep, sign, sort, return) are those of the routine written
\* without want_u, want_vt, U and Vt, no more (every step taken is one of
\* its steps) and no less (every one of its steps can be taken, whatever the
\* flags and the contents of U and Vt); so for fixed uplo, d and e the
\* return value, the final d and e and the control path are the same for
\* every choice of want_u, want_vt, U and Vt.
C26_Noninterference ==
    /\ [][/\ uplo' = uplo /\ n' = n
          /\ ctl' = CoreCtl
          /\ <<d', e'>> \in CoreDE]_vars
    /\ []((Body /\ SweepBlock(Scan)) => SweepFull = SweepDE)
    /\ [](~(Body /\ SweepBlock(Scan)) =>
            \A de \in CoreDE : ENABLED (d' = de[1] /\ e' = de[2] /\ Next))

\* C26 witness: a successful return of a lower-bidiagonal input of order 3
\* that was normalized, swept, deflated, sign-normalized and sorted with
\* want_u set and want_vt not.
C26_Witness ==
    /\ Returned /\ path = "post" /\ n = 3 /\ uplo = "Lower"
    /\ want_u /\ ~want_vt /\ oob /\ iter >= 3
    /\ \A j \in 0..2 : U[j] = Mixed
    /\ d[0] > 0

\* Lines 278-286 on d: every negative entry negated.
SignPass(dd) == [j \in DOMAIN dd |-> Abs(dd[j])]

\* Lines 289-306 on d, from i = k on: d[i] exchanged with the first entry of
\* largest magnitude of d[i..n).
RECURSIVE SortPass(_, _)
SortPass(dd, k) ==
    IF k < n - 1
    THEN LET imax == k + iamax(dd, k, n - 1)
         IN  SortPass([dd EXCEPT ![imax] = dd[k], ![k] = dd[imax]], k + 1)
    ELSE dd

\* d after a call of svd_qr on a diagonal matrix (e all zero): the main loop
\* deflates entry by entry and leaves d alone, then the two passes run.
Again(dd) == SortPass(SignPass(dd), 0)

\* Again is what svd_qr does to a diagonal upper-bidiagonal input.
AgainAgrees ==
    (DiagonalInput /\ uplo = "Upper" /\ Returned) =>
        (ret = 0 /\ AllZero(e) /\ d = Again(d_in))

\* C27: the d and e a call that returned 0 leaves are a fixed point: e is all
\* zero and a further call with uplo = Upper on them leaves d as it is (no
\* sign flip, no swap).
C27_Idempotent ==
    (Returned /\ ret = 0 /\ n >= 1) => (AllZero(e) /\ Again(d) = d)

\* The same on the return through post-processing alone.
IdempotentAfterPost ==
    (Returned /\ path = "post") => (AllZero(e) /\ Again(d) = d)

\* The view returned for col(A, j) is column j of A and nothing else.
IsCol(g, M, V, j) ==
    /\ nrows(g, V) = nrows(g, M)
    /\ ncols(g, V) = 1
    /\ V.ix = M.ix
    /\ (V.iy - M.iy) * nblockcols(g) = j

\* The view returned for row(A, k) is row k of A and nothing else.
IsRow(g, M, V, k) ==
    /\ nrows(g, V) = 1
    /\ ncols(g, V) = ncols(g, M)
    /\ V.iy = M.iy
    /\ (V.ix - M.ix) * nblockrows(g) = k

\* C28: for a tiled starpu::Matrix A, col(A, j) for every column j and
\* row(A, i) for every row i pass the alignment checks of slice and return
\* a view of exactly that column (nrows x 1), resp. row (1 x ncols).
C28_ColRowViews ==
    starpu.pc \in {"view", "error"} =>
        /\ starpu.passed
        /\ starpu.pc = "view"
        /\ starpu.op = "col" =>
              IsCol(starpu.g, starpu.A, starpu.view, starpu.idx)
        /\ starpu.op = "row" =>
              IsRow(starpu.g, starpu.A, starpu.view, starpu.idx)

\* The same for the grids of 1 x 1 tiles with at least two tile rows (nrows()
\* and ncols() answer for the whole handle when there is one tile row).
UnitTilesServe ==
    (starpu.pc \in {"view", "error"} /\ starpu.g.mb = 1 /\ starpu.g.nb = 1
     /\ starpu.g.NX >= 2 /\ starpu.g.NY >= 2) =>
        /\ starpu.passed
        /\ starpu.pc = "view"
        /\ starpu.op = "col" =>
              IsCol(starpu.g, starpu.A, starpu.view, starpu.idx)
        /\ starpu.op = "row" =>
              IsRow(starpu.g, starpu.A, starpu.view, starpu.idx)

====
